---- MODULE Spec2Model ----
(***************************************************************************)
(* Webhook verification and dispatch of laneful-python                     *)
(* (src/laneful/webhooks.py): WebhookEvent.from_dict, WebhookHandler and   *)
(* the Flask / FastAPI route helpers.                                      *)
(*                                                                         *)
(* Python values are tagged records [t |-> <type>, v |-> <value>]; a text  *)
(* (str) is a sequence of one-character strings, a bytes object a sequence *)
(* of integers 0..255.  Every call on the handler is one action; what the  *)
(* call did is left in op / args / result / invoked / trace.               *)
(***************************************************************************)
EXTENDS Integers, Sequences, FiniteSets, TLC

VARIABLES
    webhook_secret,   \* WebhookHandler.webhook_secret: None or a str
    _handlers,        \* WebhookHandler._handlers: event type (text) -> callback
    op,               \* name of the most recent call ("init" before any)
    args,             \* its arguments
    result,           \* its outcome: a returned value or a raised exception
    invoked,          \* the callback invocations it made, in order
    trace,            \* the handler methods a route helper called, in order
    regLog,           \* history: every registration made so far, in order
    lastVerify,       \* history: outcome of the latest verify_signature call
    calls             \* the process_webhook calls of concurrent callers: per
                      \* caller the position in the method and its locals

vars == <<webhook_secret, _handlers, op, args, result, invoked, trace, regLog, lastVerify,
          calls>>

(***************************************************************************)
(* Bounds of the model.                                                    *)
(***************************************************************************)
\* longest free-form signature string tried (besides the derived ones)
MaxSigLen == 2
\* number of registrations (on / register_handler) in one run
MaxRegs == 2
\* number of callers that may be inside process_webhook at the same time
MaxThreads == 2
\* hex characters of the modelled digest (64 for the real SHA-256)
DigestHexLen == 2

(***************************************************************************)
(* Python values and call outcomes.                                        *)
(***************************************************************************)
None == [t |-> "None"]
Str(s) == [t |-> "str", v |-> s]
Bytes(b) == [t |-> "bytes", v |-> b]
Num(n) == [t |-> "int", v |-> n]
Bool(b) == [t |-> "bool", v |-> b]
List(xs) == [t |-> "list", v |-> xs]
\* a dict is the sequence of its <<key text, value>> items in insertion order
Dict(items) == [t |-> "dict", v |-> items]

NoExc == [type |-> "none"]
Return(v) == [raised |-> FALSE, value |-> v, exc |-> NoExc]
Raise(e) == [raised |-> TRUE, value |-> None, exc |-> e]

\* Python truthiness of an Optional[str]
Truthy(x) == x.t = "str" /\ x.v # <<>>

(***************************************************************************)
(* Characters.                                                             *)
(***************************************************************************)
\* the printable ASCII characters: code points 32..95, and 97..126
AsciiLow ==
    << " ", "!", "\"", "#", "$", "%", "&", "'", "(", ")", "*", "+", ",", "-", ".", "/",
       "0", "1", "2", "3", "4", "5", "6", "7", "8", "9", ":", ";", "<", "=", ">", "?",
       "@", "A", "B", "C", "D", "E", "F", "G", "H", "I", "J", "K", "L", "M", "N", "O",
       "P", "Q", "R", "S", "T", "U", "V", "W", "X", "Y", "Z", "[", "\\", "]", "^", "_" >>

AsciiHigh ==
    << "a", "b", "c", "d", "e", "f", "g", "h", "i", "j", "k", "l", "m", "n", "o",
       "p", "q", "r", "s", "t", "u", "v", "w", "x", "y", "z", "{", "|", "}", "~" >>

AsciiLowSet == { AsciiLow[i] : i \in 1..Len(AsciiLow) }
AsciiHighSet == { AsciiHigh[i] : i \in 1..Len(AsciiHigh) }
AsciiSet == AsciiLowSet \cup AsciiHighSet

\* the code point of a character; the two non-ASCII characters of the model
\* are U+00E9 and U+20AC
ord(c) ==
    IF c \in AsciiLowSet THEN 31 + (CHOOSE i \in 1..Len(AsciiLow) : AsciiLow[i] = c)
    ELSE IF c \in AsciiHighSet THEN 96 + (CHOOSE i \in 1..Len(AsciiHigh) : AsciiHigh[i] = c)
    ELSE IF c = "\t" THEN 9
    ELSE IF c = "\n" THEN 10
    ELSE IF c = "\r" THEN 13
    ELSE IF c = "é" THEN 233
    ELSE 8364

isascii(s) == \A i \in 1..Len(s) : s[i] \in AsciiSet

RECURSIVE Concat(_)
Concat(seqs) == IF seqs = <<>> THEN <<>> ELSE Head(seqs) \o Concat(Tail(seqs))

\* one code point as UTF-8 (code points below U+10000, no surrogates)
utf8_char(cp) ==
    IF cp < 128 THEN <<cp>>
    ELSE IF cp < 2048 THEN <<192 + (cp \div 64), 128 + (cp % 64)>>
    ELSE <<224 + (cp \div 4096), 128 + ((cp \div 64) % 64), 128 + (cp % 64)>>

\* str.encode("utf-8")
encode_utf8(s) == Concat([i \in 1..Len(s) |-> utf8_char(ord(s[i]))])

(***************************************************************************)
(* hmac.new(key, msg, hashlib.sha256).hexdigest().  HMAC-SHA256 is library *)
(* code; it is modelled as a deterministic keyed function of the key bytes *)
(* and the message bytes, built like HMAC (an inner and an outer pass),    *)
(* rendered as DigestHexLen lowercase hexadecimal characters.              *)
(***************************************************************************)
HexDigits == <<"0", "1", "2", "3", "4", "5", "6", "7", "8", "9", "a", "b", "c", "d", "e", "f">>

RECURSIVE Pow(_, _)
Pow(b, n) == IF n = 0 THEN 1 ELSE b * Pow(b, n - 1)

DigestSpace == Pow(16, DigestHexLen)

RECURSIVE Absorb(_, _)
Absorb(h, bytes) ==
    IF bytes = <<>> THEN h
    ELSE Absorb((h * 33 + Head(bytes) + 1) % DigestSpace, Tail(bytes))

RECURSIVE ToHex(_, _)
ToHex(n, len) ==
    IF len = 0 THEN <<>> ELSE ToHex(n \div 16, len - 1) \o <<HexDigits[(n % 16) + 1]>>

hexdigest(key, msg) ==
    LET inner == Absorb(Absorb(54, key), msg)
        outer == Absorb(Absorb(92, key), <<inner % 256, inner \div 256>>)
    IN  ToHex(outer, DigestHexLen)

\* hmac.compare_digest on two str: ASCII only, else TypeError
compare_digest(a, b) ==
    IF isascii(a) /\ isascii(b) THEN Return(Bool(a = b))
    ELSE Raise([type |-> "TypeError",
                msg |-> "comparing strings with non-ASCII characters is not supported"])

(***************************************************************************)
(* WebhookHandler.verify_signature                                         *)
(***************************************************************************)
Sha256Prefix == <<"s", "h", "a", "2", "5", "6", "=">>

startswith(s, p) == Len(s) >= Len(p) /\ SubSeq(s, 1, Len(p)) = p

\* mutant: the prefix is never stripped
StripPrefix_Never(signature) == signature

StripPrefix(signature) ==
    IF startswith(signature, Sha256Prefix)
    THEN SubSeq(signature, Len(Sha256Prefix) + 1, Len(signature))
    ELSE signature

PayloadBytes(payload) ==
    IF payload.t = "str" THEN encode_utf8(payload.v) ELSE payload.v

\* mutant: `if self.webhook_secret is None`, the empty string is a secret
SecretConfigured_NotNone(secret) == secret.t = "str"

SecretConfigured(secret) == Truthy(secret)

\* mutant: the skip for a handler without secret is missing
verify_signature_NoSkip(secret, payload, signature) ==
    LET key == IF secret.t = "str" THEN encode_utf8(secret.v) ELSE <<>>
    IN  compare_digest(hexdigest(key, PayloadBytes(payload)), StripPrefix(signature))

verify_signature(secret, payload, signature) ==
    IF ~SecretConfigured(secret) THEN Return(Bool(TRUE))
    ELSE LET expected_signature ==
                 hexdigest(encode_utf8(secret.v), PayloadBytes(payload))
         IN  compare_digest(expected_signature, StripPrefix(signature))

(***************************************************************************)
(* json.loads: the decoder of the Python standard library, for the JSON    *)
(* of objects, arrays, strings without escapes, integers and the literals  *)
(* null / true / false.  Indices are Python's (0-based).  A decoding step  *)
(* yields [kind |-> "ok", val, pos] (pos: index after the value),          *)
(* [kind |-> "stop", pos] (StopIteration) or [kind |-> "error", msg, pos]  *)
(* (JSONDecodeError).                                                      *)
(***************************************************************************)
Ok(val, end) == [kind |-> "ok", val |-> val, pos |-> end, msg |-> ""]
Stop(idx) == [kind |-> "stop", val |-> None, pos |-> idx, msg |-> ""]
Err(msg, pos) == [kind |-> "error", val |-> None, pos |-> pos, msg |-> msg]

\* s[i:i+1]
At(s, i) == IF i < Len(s) THEN s[i + 1] ELSE ""
\* s[i:j]
Slice(s, i, j) == SubSeq(s, i + 1, IF j < Len(s) THEN j ELSE Len(s))

Whitespace == {" ", "\t", "\n", "\r"}
Digits == {"0", "1", "2", "3", "4", "5", "6", "7", "8", "9"}

RECURSIVE skip_ws(_, _)
skip_ws(s, i) == IF At(s, i) \in Whitespace THEN skip_ws(s, i + 1) ELSE i

RECURSIVE find_quote(_, _)
find_quote(s, i) ==
    IF i >= Len(s) THEN -1 ELSE IF s[i + 1] = "\"" THEN i ELSE find_quote(s, i + 1)

\* py_scanstring: end is the index after the opening quote
scanstring(s, end) ==
    LET close == find_quote(s, end)
    IN  IF close < 0 THEN Err("Unterminated string starting at", end - 1)
        ELSE Ok(Str(Slice(s, end, close)), close + 1)

RECURSIVE digits_end(_, _)
digits_end(s, i) == IF At(s, i) \in Digits THEN digits_end(s, i + 1) ELSE i

RECURSIVE int_of(_)
int_of(ds) ==
    IF ds = <<>> THEN 0
    ELSE 10 * int_of(SubSeq(ds, 1, Len(ds) - 1)) + (ord(ds[Len(ds)]) - 48)

\* NUMBER_RE, integer part: -?(0|[1-9][0-9]*)
match_number(s, idx) ==
    LET start == IF At(s, idx) = "-" THEN idx + 1 ELSE idx
        end == IF At(s, start) = "0" THEN start + 1 ELSE digits_end(s, start)
        magnitude == int_of(Slice(s, start, end))
    IN  IF end = start THEN Stop(idx)
        ELSE Ok(Num(IF start > idx THEN 0 - magnitude ELSE magnitude), end)

\* dict(pairs): a repeated key keeps its place and takes the later value
RECURSIVE dict_of(_)
dict_of(pairs) ==
    IF pairs = <<>> THEN <<>>
    ELSE LET init == dict_of(SubSeq(pairs, 1, Len(pairs) - 1))
             last == pairs[Len(pairs)]
         IN  IF \E i \in 1..Len(init) : init[i][1] = last[1]
             THEN [i \in 1..Len(init) |-> IF init[i][1] = last[1] THEN last ELSE init[i]]
             ELSE Append(init, last)

RECURSIVE scan_once(_, _)
RECURSIVE JSONObject(_, _)
RECURSIVE ObjectLoop(_, _, _)
RECURSIVE JSONArray(_, _)
RECURSIVE ArrayLoop(_, _, _)

\* py_make_scanner._scan_once
scan_once(s, idx) ==
    LET nextchar == At(s, idx)
    IN  IF nextchar = "" THEN Stop(idx)
        ELSE IF nextchar = "\"" THEN scanstring(s, idx + 1)
        ELSE IF nextchar = "{" THEN JSONObject(s, idx + 1)
        ELSE IF nextchar = "[" THEN JSONArray(s, idx + 1)
        ELSE IF Slice(s, idx, idx + 4) = <<"n", "u", "l", "l">> THEN Ok(None, idx + 4)
        ELSE IF Slice(s, idx, idx + 4) = <<"t", "r", "u", "e">> THEN Ok(Bool(TRUE), idx + 4)
        ELSE IF Slice(s, idx, idx + 5) = <<"f", "a", "l", "s", "e">> THEN Ok(Bool(FALSE), idx + 5)
        ELSE match_number(s, idx)

\* the loop of JSONObject: end is the index after a key's opening quote
ObjectLoop(s, end, pairs) ==
    LET key == scanstring(s, end)
        colon == IF At(s, key.pos) = ":" THEN key.pos ELSE skip_ws(s, key.pos)
        value == scan_once(s, skip_ws(s, colon + 1))
        items == Append(pairs, <<key.val.v, value.val>>)
        after == skip_ws(s, value.pos)
        name == skip_ws(s, after + 1)
    IN  IF key.kind # "ok" THEN key
        ELSE IF At(s, colon) # ":" THEN Err("Expecting ':' delimiter", colon)
        ELSE IF value.kind = "stop" THEN Err("Expecting value", value.pos)
        ELSE IF value.kind = "error" THEN value
        ELSE IF At(s, after) = "}" THEN Ok(Dict(dict_of(items)), after + 1)
        ELSE IF At(s, after) # "," THEN Err("Expecting ',' delimiter", after)
        ELSE IF At(s, name) # "\""
             THEN Err("Expecting property name enclosed in double quotes", name)
        ELSE ObjectLoop(s, name + 1, items)

\* JSONObject: end is the index after "{"
JSONObject(s, end) ==
    LET first == IF At(s, end) = "\"" THEN end ELSE skip_ws(s, end)
    IN  IF At(s, first) = "}" THEN Ok(Dict(<<>>), first + 1)
        ELSE IF At(s, first) # "\""
             THEN Err("Expecting property name enclosed in double quotes", first)
        ELSE ObjectLoop(s, first + 1, <<>>)

\* the loop of JSONArray: end is the index of the next value
ArrayLoop(s, end, values) ==
    LET value == scan_once(s, end)
        after == skip_ws(s, value.pos)
    IN  IF value.kind = "stop" THEN Err("Expecting value", value.pos)
        ELSE IF value.kind = "error" THEN value
        ELSE IF At(s, after) = "]" THEN Ok(List(Append(values, value.val)), after + 1)
        ELSE IF At(s, after) # "," THEN Err("Expecting ',' delimiter", after)
        ELSE ArrayLoop(s, skip_ws(s, after + 1), Append(values, value.val))

\* JSONArray: end is the index after "["
JSONArray(s, end) ==
    LET first == skip_ws(s, end)
    IN  IF At(s, first) = "]" THEN Ok(List(<<>>), first + 1)
        ELSE ArrayLoop(s, first, <<>>)

\* JSONDecoder.decode: one value, then nothing but whitespace
json_loads(s) ==
    LET value == scan_once(s, skip_ws(s, 0))
        end == skip_ws(s, value.pos)
    IN  IF value.kind = "stop" THEN Err("Expecting value", value.pos)
        ELSE IF value.kind = "error" THEN value
        ELSE IF end # Len(s) THEN Err("Extra data", end)
        ELSE value

(***************************************************************************)
(* WebhookEvent.from_dict                                                  *)
(***************************************************************************)
K_event_type == <<"e", "v", "e", "n", "t", "_", "t", "y", "p", "e">>
K_message_id == <<"m", "e", "s", "s", "a", "g", "e", "_", "i", "d">>
K_email == <<"e", "m", "a", "i", "l">>
K_timestamp == <<"t", "i", "m", "e", "s", "t", "a", "m", "p">>
K_data == <<"d", "a", "t", "a">>

\* mutant: `data.get(key) or default`, a falsy value gives the default
dict_get_OrDefault(d, key, default) ==
    IF \E i \in 1..Len(d.v) : d.v[i][1] = key /\ Truthy(d.v[i][2])
    THEN d.v[CHOOSE i \in 1..Len(d.v) : d.v[i][1] = key][2]
    ELSE default

\* dict.get(key, default)
dict_get(d, key, default) ==
    IF \E i \in 1..Len(d.v) : d.v[i][1] = key
    THEN d.v[CHOOSE i \in 1..Len(d.v) : d.v[i][1] = key][2]
    ELSE default

WebhookEvent(event_type, message_id, email, timestamp, data) ==
    [t |-> "WebhookEvent", event_type |-> event_type, message_id |-> message_id,
     email |-> email, timestamp |-> timestamp, data |-> data]

\* only a dict has .get: anything else raises AttributeError
from_dict(data) ==
    IF data.t # "dict"
    THEN Raise([type |-> "AttributeError", msg |-> "object has no attribute 'get'"])
    ELSE Return(WebhookEvent(dict_get(data, K_event_type, Str(<<>>)),
                             dict_get(data, K_message_id, Str(<<>>)),
                             dict_get(data, K_email, Str(<<>>)),
                             dict_get(data, K_timestamp, Num(0)),
                             dict_get(data, K_data, Dict(<<>>))))

(***************************************************************************)
(* WebhookHandler: registration and dispatch.  A callback is known by its  *)
(* name; calling it is recorded in the call's `invoked`.                   *)
(***************************************************************************)
Function(f) == [t |-> "function", v |-> f]

\* mutant: a registration replaces the whole registry
SetItem_Reset(handlers, event_type, func) == [k \in {event_type} |-> func]

\* mutant: an existing entry is kept (dict.setdefault)
SetItem_KeepFirst(handlers, event_type, func) ==
    [k \in DOMAIN handlers \cup {event_type} |-> IF k \in DOMAIN handlers THEN handlers[k] ELSE func]

\* mutant: registering under a key that is present removes the entry
SetItem_Discard(handlers, event_type, func) ==
    IF event_type \in DOMAIN handlers
    THEN [k \in DOMAIN handlers \ {event_type} |-> handlers[k]]
    ELSE [k \in DOMAIN handlers \cup {event_type} |-> IF k = event_type THEN func ELSE handlers[k]]

\* self._handlers[event_type] = func
SetItem(handlers, event_type, func) ==
    [k \in DOMAIN handlers \cup {event_type} |-> IF k = event_type THEN func ELSE handlers[k]]

\* mutant: the decorator returns func without registering it
on_Unregistered(handlers, event_type, func) ==
    [handlers |-> handlers, result |-> Return(Function(func))]

\* on(event_type)(func): the decorator registers func and returns it
on(handlers, event_type, func) ==
    [handlers |-> SetItem(handlers, event_type, func), result |-> Return(Function(func))]

register_handler(handlers, event_type, handler) ==
    [handlers |-> SetItem(handlers, event_type, handler), result |-> Return(None)]

\* the callbacks of the model: f1 and f2 return None, failing raises
Failing == "failing"
CallbackError == [type |-> "RuntimeError", msg |-> "callback failed"]
Call(callback, event) ==
    IF callback = Failing THEN Raise(CallbackError) ELSE Return(None)

Unhashable(x) == x.t \in {"list", "dict"}

\* `key in self._handlers`: the keys are str, so only an equal str is found;
\* a list or dict cannot be hashed
Contains(handlers, key) == key.t = "str" /\ key.v \in DOMAIN handlers

\* mutant: an exception raised by the callback is caught and dropped
dispatch_Swallow(handlers, event_type, event) ==
    IF Unhashable(event_type)
    THEN [result |-> Raise([type |-> "TypeError", msg |-> "unhashable type"]),
          invoked |-> <<>>]
    ELSE IF Contains(handlers, event_type)
    THEN [result |-> Return(None),
          invoked |-> <<[callback |-> handlers[event_type.v], event |-> event]>>]
    ELSE [result |-> Return(None), invoked |-> <<>>]

\* mutant: an event type without callback is an error
dispatch_Strict(handlers, event_type, event) ==
    IF Unhashable(event_type)
    THEN [result |-> Raise([type |-> "TypeError", msg |-> "unhashable type"]),
          invoked |-> <<>>]
    ELSE IF Contains(handlers, event_type)
    THEN [result |-> Call(handlers[event_type.v], event),
          invoked |-> <<[callback |-> handlers[event_type.v], event |-> event]>>]
    ELSE [result |-> Raise([type |-> "KeyError", msg |-> "no handler"]), invoked |-> <<>>]

\* mutant: hierarchy matching, a callback registered under a prefix of the
\* event type is called too
dispatch_Prefix(handlers, event_type, event) ==
    LET matching == IF event_type.t = "str"
                    THEN { k \in DOMAIN handlers : startswith(event_type.v, k) }
                    ELSE {}
        key == CHOOSE k \in matching : \A other \in matching : Len(other) <= Len(k)
    IN  IF matching = {} THEN [result |-> Return(None), invoked |-> <<>>]
        ELSE [result |-> Call(handlers[key], event),
              invoked |-> <<[callback |-> handlers[key], event |-> event]>>]

\* if event_type in self._handlers: self._handlers[event_type](event)
dispatch(handlers, event_type, event) ==
    IF Unhashable(event_type)
    THEN [result |-> Raise([type |-> "TypeError", msg |-> "unhashable type"]),
          invoked |-> <<>>]
    ELSE IF Contains(handlers, event_type)
    THEN [result |-> Call(handlers[event_type.v], event),
          invoked |-> <<[callback |-> handlers[event_type.v], event |-> event]>>]
    ELSE [result |-> Return(None), invoked |-> <<>>]

\* the first statement of process_webhook: a str is decoded, anything else
\* is taken as it is
decode_payload(payload) ==
    IF payload.t = "str" THEN json_loads(payload.v) ELSE Ok(payload, 0)

InvalidJSON(decoded) ==
    [type |-> "ValueError", msg |-> "Invalid JSON payload: ",
     cause |-> [msg |-> decoded.msg, pos |-> decoded.pos]]

\* the last two lines of process_webhook, given what from_dict did
dispatch_event(handlers, event) ==
    IF event.raised THEN [result |-> event, invoked |-> <<>>]
    ELSE dispatch(handlers, event.value.event_type, event.value)

\* process_webhook after its first statement, given what json.loads did
process_decoded(handlers, decoded) ==
    IF decoded.kind = "error"
    THEN [result |-> Raise(InvalidJSON(decoded)), invoked |-> <<>>]
    ELSE dispatch_event(handlers, from_dict(decoded.val))

\* mutant: a payload that does not decode is treated as the empty object
Lenient(decoded) == IF decoded.kind = "error" THEN Ok(Dict(<<>>), 0) ELSE decoded

process_webhook_LenientDecode(handlers, payload) ==
    process_decoded(handlers, Lenient(decode_payload(payload)))

process_webhook(handlers, payload) ==
    process_decoded(handlers, decode_payload(payload))

handle_event(handlers, event_type, event) == dispatch(handlers, Str(event_type), event)

(***************************************************************************)
(* json.dumps with its defaults: ", " and ": " separators, ensure_ascii.   *)
(***************************************************************************)
\* py_encode_basestring_ascii, one character
escape_char(c) ==
    IF c = "\"" THEN <<"\\", "\"">>
    ELSE IF c = "\\" THEN <<"\\", "\\">>
    ELSE IF c = "\n" THEN <<"\\", "n">>
    ELSE IF c = "\r" THEN <<"\\", "r">>
    ELSE IF c = "\t" THEN <<"\\", "t">>
    ELSE IF c \in AsciiSet THEN <<c>>
    ELSE <<"\\", "u">> \o ToHex(ord(c), 4)

encode_basestring_ascii(s) ==
    <<"\"">> \o Concat([i \in 1..Len(s) |-> escape_char(s[i])]) \o <<"\"">>

RECURSIVE int_repr(_)
int_repr(n) ==
    IF n < 0 THEN <<"-">> \o int_repr(0 - n)
    ELSE IF n < 10 THEN <<HexDigits[n + 1]>>
    ELSE int_repr(n \div 10) \o <<HexDigits[(n % 10) + 1]>>

RECURSIVE Join(_, _)
Join(parts, separator) ==
    IF parts = <<>> THEN <<>>
    ELSE IF Len(parts) = 1 THEN parts[1]
    ELSE parts[1] \o separator \o Join(Tail(parts), separator)

RECURSIVE json_dumps(_)
json_dumps(x) ==
    IF x.t = "None" THEN <<"n", "u", "l", "l">>
    ELSE IF x.t = "bool"
         THEN (IF x.v THEN <<"t", "r", "u", "e">> ELSE <<"f", "a", "l", "s", "e">>)
    ELSE IF x.t = "int" THEN int_repr(x.v)
    ELSE IF x.t = "str" THEN encode_basestring_ascii(x.v)
    ELSE IF x.t = "list"
         THEN <<"[">> \o Join([i \in 1..Len(x.v) |-> json_dumps(x.v[i])], <<",", " ">>) \o <<"]">>
    ELSE <<"{">>
         \o Join([i \in 1..Len(x.v) |->
                     encode_basestring_ascii(x.v[i][1]) \o <<":", " ">> \o json_dumps(x.v[i][2])],
                 <<",", " ">>)
         \o <<"}">>

(***************************************************************************)
(* The route helpers.  A request is [body, signature]: the raw body text   *)
(* and the value of the signature header (None when the header is absent). *)
(* A helper's outcome is the response, the handler methods it called       *)
(* (trace) and the callbacks invoked.                                      *)
(***************************************************************************)
Response(status, body) == [t |-> "response", status |-> status, body |-> body]

\* `signature and ...`: None and "" are falsy
SignatureGiven(signature) == signature.t = "str" /\ signature.v # <<>>

VerifyCall(payload, signature, outcome) ==
    [method |-> "verify_signature", payload |-> payload, signature |-> signature,
     outcome |-> outcome]
ProcessCall(payload, outcome) ==
    [method |-> "process_webhook", payload |-> payload, signature |-> None,
     outcome |-> outcome]

\* str(e) of an exception
str_of(e) == e.msg

\* `if signature and not handler.verify_signature(payload, signature)`: the
\* call the test makes, what the call did, and whether the test holds
Tested(payload, signature, outcome) ==
    [trace |-> <<VerifyCall(payload, signature, outcome)>>,
     result |-> outcome,
     rejected |-> ~outcome.raised /\ ~outcome.value.v]

NotTested == [trace |-> <<>>, result |-> Return(None), rejected |-> FALSE]

signature_test(secret, payload, signature) ==
    IF SignatureGiven(signature)
    THEN Tested(payload, signature, verify_signature(secret, payload, signature.v))
    ELSE NotTested

\* the try block of flask_handler once process_webhook has answered: 200,
\* or 400 for any exception
flask_processed(payload, before, out) ==
    [result |-> IF out.result.raised
                THEN Return(Response(400, [error |-> str_of(out.result.exc)]))
                ELSE Return(Response(200, [status |-> "success"])),
     trace |-> Append(before, ProcessCall(payload, out.result)),
     invoked |-> out.invoked]

\* the try block of flask_handler: request.get_json() raises BadRequest when
\* the body does not decode
flask_try(handlers, before, json) ==
    IF json.kind = "error"
    THEN [result |-> Return(Response(400, [error |-> "Failed to decode JSON object"])),
          trace |-> before, invoked |-> <<>>]
    ELSE flask_processed(json.val, before, process_webhook(handlers, json.val))

flask_respond(handlers, request, test) ==
    IF test.result.raised
    THEN [result |-> test.result, trace |-> test.trace, invoked |-> <<>>]
    ELSE IF test.rejected
    THEN [result |-> Return(Response(401, [error |-> "Invalid signature"])),
          trace |-> test.trace, invoked |-> <<>>]
    ELSE flask_try(handlers, test.trace, json_loads(request.body))

\* create_flask_webhook_handler(handler)(): request.data is the body as
\* bytes, request.get_json() the decoded body
flask_handler(handlers, secret, request) ==
    flask_respond(handlers, request,
                  signature_test(secret, Bytes(encode_utf8(request.body)), request.signature))

HTTPException(status_code, detail) ==
    [type |-> "HTTPException", status_code |-> status_code, detail |-> detail]

\* the try block of fastapi_handler once process_webhook has answered
fastapi_processed(payload, before, out) ==
    [result |-> IF out.result.raised
                THEN Raise(HTTPException(400, str_of(out.result.exc)))
                ELSE Return(Dict(<<<<<<"s", "t", "a", "t", "u", "s">>,
                                     Str(<<"s", "u", "c", "c", "e", "s", "s">>)>>>>)),
     trace |-> Append(before, ProcessCall(payload, out.result)),
     invoked |-> out.invoked]

fastapi_respond(handlers, payload, test) ==
    IF test.result.raised
    THEN [result |-> test.result, trace |-> test.trace, invoked |-> <<>>]
    ELSE IF test.rejected
    THEN [result |-> Raise(HTTPException(401, "Invalid signature")),
          trace |-> test.trace, invoked |-> <<>>]
    ELSE fastapi_processed(payload, test.trace, process_webhook(handlers, payload))

\* create_fastapi_webhook_handler(handler)(payload, signature): FastAPI has
\* decoded the body into payload; the signature is tested against
\* json.dumps(payload)
fastapi_handler(handlers, secret, payload, signature) ==
    fastapi_respond(handlers, payload,
                    signature_test(secret, Str(json_dumps(payload)), signature))

(***************************************************************************)
(* Inputs of verify_signature.                                             *)
(***************************************************************************)
\* the secrets a handler is constructed with: none, the empty string, an
\* ASCII one and one with a non-ASCII character
Secrets == { None, Str(<<>>), Str(<<"k", "e", "y">>), Str(<<"k", "é">>) }

\* text and bytes payloads; "é" as text and its UTF-8 bytes are both there
VerifyPayloads ==
    { Str(<<>>), Str(<<"{", "}">>), Str(<<"é">>),
      Bytes(<<>>), Bytes(<<195, 169>>), Bytes(<<255>>) }

\* the canonical signature "sha256=" + hex(HMAC-SHA256(S, P)) of the spec
Digest(secret, payload) == hexdigest(encode_utf8(secret.v), PayloadBytes(payload))
Sign(secret, payload) == Sha256Prefix \o Digest(secret, payload)

HexVal(c) == (CHOOSE j \in 1..Len(HexDigits) : HexDigits[j] = c) - 1
FlipBit(v, k) == IF (v \div Pow(2, k)) % 2 = 1 THEN v - Pow(2, k) ELSE v + Pow(2, k)
\* the hex digests that differ from d in exactly one bit
BitFlips(d) ==
    { [d EXCEPT ![i] = HexDigits[FlipBit(HexVal(d[i]), k) + 1]] : i \in 1..Len(d), k \in 0..3 }

SigAlphabet == {"0", "f", "é"}
RECURSIVE StringsUpTo(_, _)
StringsUpTo(alphabet, n) ==
    IF n = 0 THEN { <<>> }
    ELSE LET shorter == StringsUpTo(alphabet, n - 1)
         IN  shorter \cup { Append(s, c) : s \in shorter, c \in alphabet }

FreeSignatures ==
    LET raw == StringsUpTo(SigAlphabet, MaxSigLen) \cup { <<"i", "n", "v", "a", "l", "i", "d">> }
    IN  raw \cup { Sha256Prefix \o s : s \in raw }

\* signatures derived from the correct digest: canonical, bare, doubly
\* prefixed, and every single-bit mutation (prefixed and bare)
DerivedSignatures(secret, payload) ==
    IF secret.t # "str" THEN {}
    ELSE LET d == Digest(secret, payload)
         IN  { Sha256Prefix \o d, d, Sha256Prefix \o Sha256Prefix \o d }
             \cup BitFlips(d) \cup { Sha256Prefix \o m : m \in BitFlips(d) }

Signatures(secret, payload) == FreeSignatures \cup DerivedSignatures(secret, payload)

(***************************************************************************)
(* The handler object.                                                     *)
(***************************************************************************)
EmptyRegistry == [k \in {} |-> "f1"]

\* the callers that may be inside process_webhook at the same time; a caller
\* that is not inside the method is idle
Threads == 1..MaxThreads
Idle ==
    [pc |-> "idle", payload |-> None, event |-> None, result |-> Return(None),
     invoked |-> <<>>, before |-> EmptyRegistry, after |-> EmptyRegistry,
     overlapped |-> FALSE]

\* no verify_signature call has been made yet
NeverVerified == Return([t |-> "never"])

\* WebhookHandler.__init__
Init ==
    /\ webhook_secret \in Secrets
    /\ _handlers = EmptyRegistry
    /\ op = "init"
    /\ args = <<>>
    /\ result = Return(None)
    /\ invoked = <<>>
    /\ trace = <<>>
    /\ regLog = <<>>
    /\ lastVerify = NeverVerified
    /\ calls = [t \in Threads |-> Idle]

VerifySignature(payload, signature) ==
    /\ op' = "verify_signature"
    /\ args' = [payload |-> payload, signature |-> signature]
    /\ result' = verify_signature(webhook_secret, payload, signature)
    /\ lastVerify' = result'
    /\ invoked' = <<>>
    /\ trace' = <<>>
    /\ UNCHANGED <<calls, webhook_secret, _handlers, regLog>>

NextVerify ==
    \E payload \in VerifyPayloads :
        \E signature \in Signatures(webhook_secret, payload) :
            VerifySignature(payload, signature)

SpecVerify == Init /\ [][NextVerify]_vars

(***************************************************************************)
(* Inputs of registration and dispatch.                                    *)
(***************************************************************************)
EmailSent == <<"e", "m", "a", "i", "l", ".", "s", "e", "n", "t">>
EmailSentUpper == <<"E", "M", "A", "I", "L", ".", "S", "E", "N", "T">>
Email == <<"e", "m", "a", "i", "l">>

\* the event types callbacks are registered under: one is the other in
\* upper case, one is a prefix of another
EventTypes == { EmailSent, EmailSentUpper, Email }
Callbacks == { "f1", "f2" }

\* JSON text builders
Quoted(s) == <<"\"">> \o s \o <<"\"">>
Member(key, value) == Quoted(key) \o <<":">> \o value
Object1(key, value) == <<"{">> \o Member(key, value) \o <<"}">>
EventText(event_type) == Object1(K_event_type, Quoted(event_type))

\* {"event_type": "email.sent", "message_id": "m1", "timestamp": 7,
\*  "data": {"k": [1]}, "extra": true}
FullText ==
    <<"{">> \o Member(K_event_type, <<" ">> \o Quoted(EmailSent)) \o <<",", " ">>
    \o Member(K_message_id, <<" ">> \o Quoted(<<"m", "1">>)) \o <<",", " ">>
    \o Member(K_timestamp, <<" ", "7">>) \o <<",", " ">>
    \o Member(K_data, <<" ">> \o Object1(<<"k">>, <<" ", "[", "1", "]">>)) \o <<",", " ">>
    \o Member(<<"e", "x", "t", "r", "a">>, <<" ", "t", "r", "u", "e">>) \o <<"}">>

\* texts that decode to a JSON object
ObjectTexts ==
    { EventText(e) : e \in EventTypes }
    \cup { FullText,
           <<"{", "}">>,
           Object1(K_event_type, <<"n", "u", "l", "l">>),
           Object1(K_event_type, <<"5">>),
           Object1(K_event_type, <<"[", "]">>),
           Object1(K_message_id, Quoted(<<"m", "1">>)) }

\* texts that decode to a JSON value that is no object
ValueTexts == { <<"[", "]">>, <<"5">>, <<"n", "u", "l", "l">>, Quoted(EmailSent) }

\* texts that are not JSON: "invalid json" (the test suite's), the empty
\* text, an unclosed object, a trailing comma, trailing text
MalformedTexts ==
    { <<"i", "n", "v", "a", "l", "i", "d", " ", "j", "s", "o", "n">>,
      <<>>,
      <<"{">> \o Member(K_event_type, Quoted(EmailSent)),
      <<"{">> \o Member(K_event_type, Quoted(EmailSent)) \o <<",", "}">>,
      EventText(EmailSent) \o <<" ", "x">> }

\* already-structured payloads (Dict[str, Any])
DictPayloads ==
    { Dict(<<<<K_event_type, Str(e)>>>>) : e \in EventTypes }
    \cup { Dict(<<>>),
           Dict(<<<<K_event_type, None>>>>),
           Dict(<<<<K_event_type, List(<<>>)>>>>),
           Dict(<<<<K_event_type, Str(EmailSent)>>, <<K_message_id, Str(<<"m", "1">>)>>,
                  <<K_timestamp, Num(7)>>, <<K_data, Dict(<<<<<<"k">>, List(<<Num(1)>>)>>>>)>>,
                  <<<<"e", "x", "t", "r", "a">>, Bool(TRUE)>>>>) }

WebhookPayloads ==
    { Str(text) : text \in ObjectTexts \cup ValueTexts \cup MalformedTexts } \cup DictPayloads

\* events handed to handle_event
Events ==
    { WebhookEvent(Str(EmailSent), Str(<<"m", "1">>), Str(<<>>), Num(7), Dict(<<>>)),
      WebhookEvent(Str(Email), Str(<<>>), Str(<<>>), Num(0), Dict(<<>>)),
      from_dict(Dict(<<<<K_event_type, None>>>>)).value }

(***************************************************************************)
(* The calls on the handler.                                               *)
(***************************************************************************)
Registration(event_type, callback) == [event_type |-> event_type, callback |-> callback]

\* a registration call leaves the registry and its return value
Registered(out) ==
    /\ _handlers' = out.handlers
    /\ result' = out.result

\* a dispatching call leaves its outcome and the callbacks it invoked
Dispatched(out) ==
    /\ result' = out.result
    /\ invoked' = out.invoked

\* @handler.on(event_type) applied to func
On(event_type, func) ==
    /\ Len(regLog) < MaxRegs
    /\ Registered(on(_handlers, event_type, func))
    /\ op' = "on"
    /\ args' = [event_type |-> event_type, func |-> func]
    /\ regLog' = Append(regLog, Registration(event_type, func))
    /\ invoked' = <<>>
    /\ trace' = <<>>
    /\ UNCHANGED <<calls, webhook_secret, lastVerify>>

RegisterHandler(event_type, handler) ==
    /\ Len(regLog) < MaxRegs
    /\ Registered(register_handler(_handlers, event_type, handler))
    /\ op' = "register_handler"
    /\ args' = [event_type |-> event_type, handler |-> handler]
    /\ regLog' = Append(regLog, Registration(event_type, handler))
    /\ invoked' = <<>>
    /\ trace' = <<>>
    /\ UNCHANGED <<calls, webhook_secret, lastVerify>>

\* mutant: the call refuses to dispatch unless the latest verify_signature
\* call returned true
ProcessOutcome_Verified(payload) ==
    IF lastVerify = Return(Bool(TRUE)) THEN process_webhook(_handlers, payload)
    ELSE [result |-> Raise([type |-> "PermissionError", msg |-> "signature not verified"]),
          invoked |-> <<>>]

\* self.process_webhook(payload) on this handler
ProcessOutcome(payload) == process_webhook(_handlers, payload)

ProcessWebhook(payload) ==
    /\ Dispatched(ProcessOutcome(payload))
    /\ op' = "process_webhook"
    /\ args' = [payload |-> payload]
    /\ trace' = <<>>
    /\ UNCHANGED <<calls, webhook_secret, _handlers, regLog, lastVerify>>

HandleEvent(event_type, event) ==
    /\ Dispatched(handle_event(_handlers, event_type, event))
    /\ op' = "handle_event"
    /\ args' = [event_type |-> event_type, event |-> event]
    /\ trace' = <<>>
    /\ UNCHANGED <<calls, webhook_secret, _handlers, regLog, lastVerify>>

\* WebhookEvent.from_dict(data), called directly
FromDict(data) ==
    /\ op' = "from_dict"
    /\ args' = [data |-> data]
    /\ result' = from_dict(data)
    /\ invoked' = <<>>
    /\ trace' = <<>>
    /\ UNCHANGED <<calls, webhook_secret, _handlers, regLog, lastVerify>>

\* the handler of the dispatch specification is constructed with a secret
DispatchSecrets == { Str(<<"k", "e", "y">>) }
InitDispatch == Init /\ webhook_secret \in DispatchSecrets

\* the signatures tried between webhooks: the canonical one and a wrong one
DispatchSignatures(secret, payload) ==
    { <<"i", "n", "v", "a", "l", "i", "d">> }
    \cup (IF Truthy(secret) THEN { Sign(secret, payload) } ELSE {})

Next ==
    \/ \E e \in EventTypes, f \in Callbacks : On(e, f)
    \/ \E e \in EventTypes, f \in Callbacks : RegisterHandler(e, f)
    \/ \E payload \in WebhookPayloads : ProcessWebhook(payload)
    \/ \E e \in EventTypes, event \in Events : HandleEvent(e, event)
    \/ \E data \in DictPayloads : FromDict(data)
    \/ \E signature \in DispatchSignatures(webhook_secret, Str(<<"{", "}">>)) :
           VerifySignature(Str(<<"{", "}">>), signature)

Spec == InitDispatch /\ [][Next]_vars

\* the last verify_signature call of a helper's trace, if it made one
VerifyOutcome(made, before) ==
    IF \E i \in 1..Len(made) : made[i].method = "verify_signature"
    THEN made[CHOOSE i \in 1..Len(made) : made[i].method = "verify_signature"].outcome
    ELSE before

\* a route helper leaves its answer, the handler methods it called and the
\* callbacks invoked
Answered(out) ==
    /\ result' = out.result
    /\ trace' = out.trace
    /\ invoked' = out.invoked
    /\ lastVerify' = VerifyOutcome(out.trace, lastVerify)

(***************************************************************************)
(* Callbacks that fail, and a caller that processes a list of webhooks.    *)
(***************************************************************************)
\* the number of webhooks a caller hands over in one loop
MaxCalls == 4

SeqsUpTo(S, n) == UNION { [1..k -> S] : k \in 0..n }

\* mutant: a webhook equal to one already processed in the loop is not
\* delivered to the callback again
Processed_Dedup(done, payload, out) ==
    [result |-> out.result,
     trace |-> Append(done.trace, ProcessCall(payload, out.result)),
     invoked |-> IF \E n \in 1..Len(done.invoked) : <<done.invoked[n]>> = out.invoked
                 THEN done.invoked
                 ELSE done.invoked \o out.invoked]

\* one round of `for event_data in sample_events:
\* handler.process_webhook(event_data)`, given what the call did
Processed(done, payload, out) ==
    [result |-> out.result,
     trace |-> Append(done.trace, ProcessCall(payload, out.result)),
     invoked |-> done.invoked \o out.invoked]

\* the loop: an exception of a call leaves the loop, the later webhooks are
\* not processed
RECURSIVE process_each(_, _, _)
process_each(handlers, payloads, done) ==
    IF payloads = <<>> \/ done.result.raised THEN done
    ELSE process_each(handlers, Tail(payloads),
                      Processed(done, Head(payloads),
                                process_webhook(handlers, Head(payloads))))

NothingDone == [result |-> Return(None), trace |-> <<>>, invoked |-> <<>>]

ProcessEach(payloads) ==
    /\ Answered(process_each(_handlers, payloads, NothingDone))
    /\ op' = "process_each"
    /\ args' = [payloads |-> payloads]
    /\ UNCHANGED <<calls, webhook_secret, _handlers, regLog>>

\* the event types and callbacks registered, and the webhooks handed over
CountedTypes == { EmailSent, Email }
CountedCallbacks == { "f1", Failing }
CountedPayloads == { Dict(<<<<K_event_type, Str(e)>>>>) : e \in CountedTypes }

NextCallbacks ==
    \/ \E e \in CountedTypes, f \in CountedCallbacks : On(e, f)
    \/ \E e \in CountedTypes, f \in CountedCallbacks : RegisterHandler(e, f)
    \/ \E payload \in CountedPayloads : ProcessWebhook(payload)
    \/ \E e \in CountedTypes, event \in Events : HandleEvent(e, event)
    \/ \E payloads \in SeqsUpTo(CountedPayloads, MaxCalls) : ProcessEach(payloads)

SpecCallbacks == InitDispatch /\ [][NextCallbacks]_vars

(***************************************************************************)
(* Concurrent callers of process_webhook.  A call takes three steps: the   *)
(* payload is decoded and built into an event (locals only), the registry  *)
(* is tested for the event type, and the callback is looked up and called. *)
(* Between the steps of one caller the others may take theirs.             *)
(***************************************************************************)
Local(pc, event, outcome, invocations) ==
    [pc |-> pc, event |-> event, result |-> outcome, invoked |-> invocations]

\* event = WebhookEvent.from_dict(data), given what from_dict did
built_step(event) ==
    IF event.raised THEN Local("done", None, event, <<>>)
    ELSE Local("built", event.value, Return(None), <<>>)

\* the decoding of the payload, given what json.loads did
decoded_step(decoded) ==
    IF decoded.kind = "error" THEN Local("done", None, Raise(InvalidJSON(decoded)), <<>>)
    ELSE built_step(from_dict(decoded.val))

parse_step(payload) == decoded_step(decode_payload(payload))

\* if event.event_type in self._handlers
test_step(handlers, event) ==
    IF Unhashable(event.event_type)
    THEN Local("done", event, Raise([type |-> "TypeError", msg |-> "unhashable type"]), <<>>)
    ELSE IF Contains(handlers, event.event_type)
    THEN Local("found", event, Return(None), <<>>)
    ELSE Local("done", event, Return(None), <<>>)

\* self._handlers[event.event_type](event): the lookup raises KeyError when
\* the key is not there
call_step(handlers, event) ==
    IF ~Contains(handlers, event.event_type)
    THEN Local("done", event, Raise([type |-> "KeyError", msg |-> "missing key"]), <<>>)
    ELSE Local("done", event, Call(handlers[event.event_type.v], event),
               <<[callback |-> handlers[event.event_type.v], event |-> event]>>)

InFlight(t) == calls[t].pc \in {"built", "found"}
Quiescent == \A t \in Threads : calls[t] = Idle
Overlapping(t) == \E other \in Threads \ {t} : InFlight(other)

\* the caller's record after a step: its locals, the registry when the call
\* began (before) and at its latest step (after), and whether another call
\* was in flight at one of its steps
Started(payload, registry, overlapping, local) ==
    [pc |-> local.pc, payload |-> payload, event |-> local.event, result |-> local.result,
     invoked |-> local.invoked, before |-> registry, after |-> registry,
     overlapped |-> overlapping]

Advanced(call, registry, overlapping, local) ==
    [pc |-> local.pc, payload |-> call.payload, event |-> local.event, result |-> local.result,
     invoked |-> local.invoked, before |-> call.before, after |-> registry,
     overlapped |-> call.overlapped \/ overlapping]

Begin(t, payload) ==
    /\ calls[t] = Idle
    /\ calls' = [calls EXCEPT ![t] = Started(payload, _handlers, Overlapping(t),
                                             parse_step(payload))]
    /\ UNCHANGED <<webhook_secret, _handlers, op, args, result, invoked, trace, regLog,
                   lastVerify>>

\* mutant: a call that finds another call in flight gives up without
\* dispatching
TestStep_Exclusive(t) ==
    /\ calls[t].pc = "built"
    /\ calls' = [calls EXCEPT ![t] =
                     Advanced(calls[t], _handlers, Overlapping(t),
                              IF Overlapping(t)
                              THEN Local("done", calls[t].event, Return(None), <<>>)
                              ELSE test_step(_handlers, calls[t].event))]
    /\ UNCHANGED <<webhook_secret, _handlers, op, args, result, invoked, trace, regLog,
                   lastVerify>>

TestStep(t) ==
    /\ calls[t].pc = "built"
    /\ calls' = [calls EXCEPT ![t] = Advanced(calls[t], _handlers, Overlapping(t),
                                              test_step(_handlers, calls[t].event))]
    /\ UNCHANGED <<webhook_secret, _handlers, op, args, result, invoked, trace, regLog,
                   lastVerify>>

CallStep(t) ==
    /\ calls[t].pc = "found"
    /\ calls' = [calls EXCEPT ![t] = Advanced(calls[t], _handlers, Overlapping(t),
                                              call_step(_handlers, calls[t].event))]
    /\ UNCHANGED <<webhook_secret, _handlers, op, args, result, invoked, trace, regLog,
                   lastVerify>>

\* the call returns (or raises) to its caller
ReturnStep(t) ==
    /\ calls[t].pc = "done"
    /\ calls' = [calls EXCEPT ![t] = Idle]
    /\ UNCHANGED <<webhook_secret, _handlers, op, args, result, invoked, trace, regLog,
                   lastVerify>>

\* a registration made while no caller is inside process_webhook
RegisterQuiet(event_type, handler) ==
    /\ Quiescent
    /\ RegisterHandler(event_type, handler)

\* the webhooks of the concurrent callers
ConcurrentPayloads ==
    { Str(EventText(EmailSent)), Dict(<<<<K_event_type, Str(Email)>>>>) }

NextConcurrent ==
    \/ \E e \in CountedTypes, f \in CountedCallbacks : RegisterQuiet(e, f)
    \/ \E t \in Threads, payload \in ConcurrentPayloads : Begin(t, payload)
    \/ \E t \in Threads : TestStep(t)
    \/ \E t \in Threads : CallStep(t)
    \/ \E t \in Threads : ReturnStep(t)

SpecConcurrent == InitDispatch /\ [][NextConcurrent]_vars

(***************************************************************************)
(* Dispatching calls that registrations interleave with.  process_webhook  *)
(* and handle_event both test the registry for the key and then look the   *)
(* key up and call what they find; on and register_handler may run between *)
(* any two steps of a caller.                                              *)
(***************************************************************************)
\* if event_type in self._handlers (event_type is a str)
handle_test_step(handlers, event_type, event) ==
    IF Contains(handlers, Str(event_type))
    THEN Local("found", event, Return(None), <<>>)
    ELSE Local("done", event, Return(None), <<>>)

\* self._handlers[event_type](event)
handle_call_step(handlers, event_type, event) ==
    IF ~Contains(handlers, Str(event_type))
    THEN Local("done", event, Raise([type |-> "KeyError", msg |-> "missing key"]), <<>>)
    ELSE Local("done", event, Call(handlers[event_type], event),
               <<[callback |-> handlers[event_type], event |-> event]>>)

\* the caller's record on entry: the operation, the key it will test, its
\* locals; nothing tested yet
Entered(operation, key, local) ==
    [pc |-> local.pc, operation |-> operation, key |-> key, event |-> local.event,
     result |-> local.result, invoked |-> local.invoked,
     tested |-> EmptyRegistry, regs |-> 0]

\* the record after the membership test: the registry the test read and the
\* number of registrations made until then
TestedAt(call, registry, regs, local) ==
    [pc |-> local.pc, operation |-> call.operation, key |-> call.key, event |-> local.event,
     result |-> local.result, invoked |-> local.invoked,
     tested |-> registry, regs |-> regs]

\* the record after the lookup and the call of the callback
Called(call, local) ==
    [pc |-> local.pc, operation |-> call.operation, key |-> call.key, event |-> local.event,
     result |-> local.result, invoked |-> local.invoked,
     tested |-> call.tested, regs |-> call.regs]

\* process_webhook up to the construction of the event
EnteredProcess(local) ==
    Entered("process_webhook",
            IF local.pc = "built" THEN local.event.event_type ELSE None, local)

RaceProcess(t, payload) ==
    /\ calls[t] = Idle
    /\ calls' = [calls EXCEPT ![t] = EnteredProcess(parse_step(payload))]
    /\ UNCHANGED <<webhook_secret, _handlers, op, args, result, invoked, trace, regLog,
                   lastVerify>>

\* handle_event(event_type, event) entered: nothing is computed before the test
RaceHandle(t, event_type, event) ==
    /\ calls[t] = Idle
    /\ calls' = [calls EXCEPT ![t] =
                     Entered("handle_event", Str(event_type),
                             Local("built", event, Return(None), <<>>))]
    /\ UNCHANGED <<webhook_secret, _handlers, op, args, result, invoked, trace, regLog,
                   lastVerify>>

RaceTest(t) ==
    /\ calls[t].pc = "built"
    /\ calls' = [calls EXCEPT ![t] =
                     TestedAt(calls[t], _handlers, Len(regLog),
                              IF calls[t].operation = "handle_event"
                              THEN handle_test_step(_handlers, calls[t].key.v, calls[t].event)
                              ELSE test_step(_handlers, calls[t].event))]
    /\ UNCHANGED <<webhook_secret, _handlers, op, args, result, invoked, trace, regLog,
                   lastVerify>>

RaceCall(t) ==
    /\ calls[t].pc = "found"
    /\ calls' = [calls EXCEPT ![t] =
                     Called(calls[t],
                            IF calls[t].operation = "handle_event"
                            THEN handle_call_step(_handlers, calls[t].key.v, calls[t].event)
                            ELSE call_step(_handlers, calls[t].event))]
    /\ UNCHANGED <<webhook_secret, _handlers, op, args, result, invoked, trace, regLog,
                   lastVerify>>

\* the registrations and the calls that race
RaceTypes == { EmailSent }
RaceCallbacks == { "f1", "f2" }
RacePayloads == { Str(EventText(EmailSent)) }
RaceEvents == { WebhookEvent(Str(Email), Str(<<>>), Str(<<>>), Num(0), Dict(<<>>)) }

NextRace ==
    \/ \E e \in RaceTypes, f \in RaceCallbacks : On(e, f)
    \/ \E e \in RaceTypes, f \in RaceCallbacks : RegisterHandler(e, f)
    \/ \E t \in Threads, payload \in RacePayloads : RaceProcess(t, payload)
    \/ \E t \in Threads, e \in RaceTypes, event \in RaceEvents : RaceHandle(t, e, event)
    \/ \E t \in Threads : RaceTest(t)
    \/ \E t \in Threads : RaceCall(t)
    \/ \E t \in Threads : ReturnStep(t)

SpecRace == InitDispatch /\ [][NextRace]_vars

(***************************************************************************)
(* Requests served through the route helpers.                              *)
(***************************************************************************)
Request(body, signature) == [body |-> body, signature |-> signature]

\* request bodies: an event in compact form and as json.dumps writes it,
\* the empty object, a JSON array and text that is not JSON
RequestBodies ==
    { EventText(EmailSent),
      json_dumps(Dict(<<<<K_event_type, Str(EmailSent)>>>>)),
      <<"{", "}">>,
      <<"[", "]">>,
      <<"i", "n", "v", "a", "l", "i", "d", " ", "j", "s", "o", "n">> }

\* signature headers: absent, empty, wrong, not ASCII, and with a secret
\* the canonical signature of the raw body
RequestSignatures(secret, body) ==
    { None, Str(<<>>), Str(Sha256Prefix \o <<"i", "n", "v", "a", "l", "i", "d">>), Str(<<"é">>) }
    \cup (IF Truthy(secret) THEN { Str(Sign(secret, Str(body))) } ELSE {})

FlaskHandler(request) ==
    /\ Answered(flask_handler(_handlers, webhook_secret, request))
    /\ op' = "flask_handler"
    /\ args' = request
    /\ UNCHANGED <<calls, webhook_secret, _handlers, regLog>>

\* FastAPI decodes the body and calls the helper only with a JSON object
FastapiCall(request, json) ==
    /\ json.kind = "ok"
    /\ json.val.t = "dict"
    /\ Answered(fastapi_handler(_handlers, webhook_secret, json.val, request.signature))
    /\ op' = "fastapi_handler"
    /\ args' = request
    /\ UNCHANGED <<calls, webhook_secret, _handlers, regLog>>

FastapiHandler(request) == FastapiCall(request, json_loads(request.body))

\* the callbacks registered before requests are served
AdapterCallbacks == { "f1", Failing }
AdapterSecrets == { None, Str(<<"k", "e", "y">>) }
InitAdapter == Init /\ webhook_secret \in AdapterSecrets

NextAdapter ==
    \/ \E e \in EventTypes, f \in AdapterCallbacks : RegisterHandler(e, f)
    \/ \E body \in RequestBodies :
           \E signature \in RequestSignatures(webhook_secret, body) :
               FlaskHandler(Request(body, signature))
    \/ \E body \in RequestBodies :
           \E signature \in RequestSignatures(webhook_secret, body) :
               FastapiHandler(Request(body, signature))

SpecAdapter == InitAdapter /\ [][NextAdapter]_vars

(***************************************************************************)
(* Claims about verify_signature (checked under SpecVerify).               *)
(***************************************************************************)
VerifyCalled == op = "verify_signature"
CorrectDigest == Digest(webhook_secret, args.payload)
MutatedSignatures == { Sha256Prefix \o m : m \in BitFlips(CorrectDigest) }

\* C1 as stated: for every secret S (any string) the canonical signature
\* "sha256=" + hex(HMAC(S, P)) verifies, and a single-bit mutation of the
\* digest is rejected.
C1_AnySecret ==
    (VerifyCalled /\ webhook_secret.t = "str") =>
        /\ args.signature = Sign(webhook_secret, args.payload)
               => result = Return(Bool(TRUE))
        /\ args.signature \in MutatedSignatures
               => result = Return(Bool(FALSE))

\* C1 amended: for every non-empty secret S and every payload P (text or
\* bytes), verify_signature(P, "sha256=" + hex(HMAC(S, P))) returns true and
\* a single-bit mutation of the digest returns false.
C1_NonEmptySecret ==
    (VerifyCalled /\ Truthy(webhook_secret)) =>
        /\ args.signature = Sign(webhook_secret, args.payload)
               => result = Return(Bool(TRUE))
        /\ args.signature \in MutatedSignatures
               => result = Return(Bool(FALSE))

\* C1 witness: a non-ASCII text payload verified with its canonical
\* signature under a configured secret.
C1_Witness ==
    /\ VerifyCalled
    /\ Truthy(webhook_secret)
    /\ args.payload = Str(<<"é">>)
    /\ args.signature = Sign(webhook_secret, args.payload)
    /\ result = Return(Bool(TRUE))

\* C3: with a configured secret verify_signature never raises: it returns a
\* boolean for every signature string, and false when the signature is
\* neither the correct digest nor "sha256=" + the correct digest.
C3_NeverRaises ==
    (VerifyCalled /\ Truthy(webhook_secret)) =>
        /\ ~result.raised
        /\ result.value.t = "bool"
        /\ args.signature \notin { CorrectDigest, Sha256Prefix \o CorrectDigest }
               => result.value = Bool(FALSE)

\* C4: a handler constructed with no secret returns true from
\* verify_signature for every payload and every signature.
C4_NoSecretAlwaysTrue ==
    (VerifyCalled /\ webhook_secret = None) => result = Return(Bool(TRUE))

\* C4 witness: the empty payload and the empty signature on a handler
\* without secret.
C4_Witness ==
    /\ VerifyCalled
    /\ webhook_secret = None
    /\ args.payload = Str(<<>>)
    /\ args.signature = <<>>
    /\ result = Return(Bool(TRUE))

\* a signature in the "sha256=<x>" form, and its <x>
Prefixed(signature) == startswith(signature, Sha256Prefix)
Bare(signature) == SubSeq(signature, Len(Sha256Prefix) + 1, Len(signature))

\* C16: the "sha256=<x>" form and the bare "<x>" form of a digest string x
\* (hex digits, or any other text that does not itself begin with "sha256=")
\* are accepted identically: verify_signature(P, "sha256=" + x) and
\* verify_signature(P, x) have the same outcome for every payload and secret.
C16_PrefixedEqualsBare ==
    VerifyCalled =>
        /\ ~Prefixed(args.signature) =>
               result = verify_signature(webhook_secret, args.payload,
                                         Sha256Prefix \o args.signature)
        /\ (Prefixed(args.signature) /\ ~Prefixed(Bare(args.signature))) =>
               result = verify_signature(webhook_secret, args.payload, Bare(args.signature))

\* C16 witness: the bare correct digest is accepted under a configured
\* secret, as its "sha256=" form is.
C16_Witness ==
    /\ VerifyCalled
    /\ Truthy(webhook_secret)
    /\ args.signature = CorrectDigest
    /\ result = Return(Bool(TRUE))
    /\ verify_signature(webhook_secret, args.payload, Sha256Prefix \o CorrectDigest)
           = Return(Bool(TRUE))

\* C21: a handler constructed with the empty string as secret behaves as
\* one constructed with no secret: verify_signature returns true for every
\* payload and every signature (wrong, mutated and non-ASCII ones included),
\* the outcome of the same call on a handler without secret.
C21_EmptySecretIsNoSecret ==
    (VerifyCalled /\ webhook_secret = Str(<<>>)) =>
        /\ result = Return(Bool(TRUE))
        /\ result = verify_signature(None, args.payload, args.signature)

\* C21 witness: with "" as secret, a signature that is not the digest of the
\* payload has been accepted.
C21_Witness ==
    /\ VerifyCalled
    /\ webhook_secret = Str(<<>>)
    /\ args.payload = Str(<<"é">>)
    /\ args.signature = Sha256Prefix \o <<"i", "n", "v", "a", "l", "i", "d">>
    /\ args.signature # Sign(webhook_secret, args.payload)
    /\ result = Return(Bool(TRUE))

(***************************************************************************)
(* Claims about registration and dispatch (checked under Spec).            *)
(***************************************************************************)
ProcessCalled == op = "process_webhook"
MalformedPayloads == { Str(text) : text \in MalformedTexts }

\* the event the payload of the latest process_webhook call parses to
Parsed == from_dict(decode_payload(args.payload).val)
ParsedOk ==
    /\ ProcessCalled
    /\ decode_payload(args.payload).kind = "ok"
    /\ ~Parsed.raised
    /\ Parsed.value.event_type.t = "str"

\* the positions in the history of the registrations under an event type
RegistrationsOf(event_type) == { i \in 1..Len(regLog) : regLog[i].event_type = event_type }
Latest(indices) == CHOOSE i \in indices : \A j \in indices : j <= i

\* the latest call is process_webhook and its payload was decoded and built
\* into an event
ParsedEvent ==
    /\ ProcessCalled
    /\ decode_payload(args.payload).kind = "ok"
    /\ ~Parsed.raised

\* C5: process_webhook on a successfully parsed payload invokes a callback
\* iff one is registered under exactly the payload's event_type string
\* (case-sensitive, no prefix matching); it then invokes one callback, once,
\* with the parsed event, and that callback was registered under the event's
\* event_type.
C5_ExactMatchDispatch ==
    ParsedEvent =>
        LET event == Parsed.value
        IN  IF event.event_type.t = "str" /\ RegistrationsOf(event.event_type.v) # {}
            THEN /\ Len(invoked) = 1
                 /\ invoked[1].event = event
                 /\ \E i \in RegistrationsOf(event.event_type.v) :
                        regLog[i].callback = invoked[1].callback
            ELSE invoked = <<>>

\* C5 witness: "email.sent" is dispatched to its callback while a callback
\* is also registered under the prefix "email".
C5_Witness ==
    /\ ParsedOk
    /\ Parsed.value.event_type = Str(EmailSent)
    /\ DOMAIN _handlers = { EmailSent, Email }
    /\ Len(invoked) = 1
    /\ invoked[1].callback = _handlers[EmailSent]

\* the event type the latest call dispatched on, when it is a string
Dispatching ==
    \/ op = "handle_event"
    \/ ParsedOk
DispatchKey == IF op = "handle_event" THEN args.event_type ELSE Parsed.value.event_type.v

\* C6: registration is last-write-wins: no registration raises, and once an
\* event type has two or more registrations, a dispatch for it invokes the
\* latest registered callback and none of the replaced ones.
C6_LastWriteWins ==
    /\ op \in {"on", "register_handler"} => ~result.raised
    /\ (Dispatching /\ Cardinality(RegistrationsOf(DispatchKey)) >= 2) =>
           LET regs == RegistrationsOf(DispatchKey)
               second == regLog[Latest(regs)].callback
           IN  /\ Len(invoked) = 1
               /\ invoked[1].callback = second
               /\ \A i \in regs :
                      regLog[i].callback # second =>
                          \A n \in 1..Len(invoked) : invoked[n].callback # regLog[i].callback

\* C6 witness: f1 then f2 registered under "email.sent", and a webhook for
\* "email.sent" has invoked f2.
C6_Witness ==
    /\ regLog = <<Registration(EmailSent, "f1"), Registration(EmailSent, "f2")>>
    /\ ProcessCalled
    /\ Len(invoked) = 1
    /\ invoked[1].callback = "f2"

\* C7: process_webhook given a text that is not JSON raises ValueError
\* "Invalid JSON payload: <decoder's message>", invokes no callback and
\* leaves the registry unchanged.
C7_InvalidJSONRaises ==
    [][(op' = "process_webhook" /\ args'.payload \in MalformedPayloads) =>
           /\ result'.raised
           /\ result'.exc.type = "ValueError"
           /\ result'.exc.msg = "Invalid JSON payload: "
           /\ json_loads(args'.payload.v).kind = "error"
           /\ result'.exc.cause = [msg |-> json_loads(args'.payload.v).msg,
                                   pos |-> json_loads(args'.payload.v).pos]
           /\ invoked' = <<>>
           /\ _handlers' = _handlers]_vars

\* C7 witness: "invalid json" has been refused on a handler with a
\* registered callback.
C7_Witness ==
    /\ ProcessCalled
    /\ args.payload = Str(<<"i", "n", "v", "a", "l", "i", "d", " ", "j", "s", "o", "n">>)
    /\ result.raised
    /\ result.exc.type = "ValueError"
    /\ result.exc.cause.msg = "Expecting value"
    /\ DOMAIN _handlers # {}

\* C8: decode failure is the only error: with no callback registered,
\* process_webhook on a text that decodes as JSON or on an
\* already-structured payload, and from_dict, complete without raising.
C8_OnlyDecodeErrors ==
    /\ (ProcessCalled /\ regLog = <<>> /\ args.payload \notin MalformedPayloads)
           => ~result.raised
    /\ op = "from_dict" => ~result.raised

\* C9: event_type of every event that from_dict constructs or a callback
\* receives is a string, the empty string when the payload has no
\* event_type.
C9_EventTypeIsString ==
    /\ (op = "from_dict" /\ ~result.raised) =>
           /\ result.value.event_type.t = "str"
           /\ (\A i \in 1..Len(args.data.v) : args.data.v[i][1] # K_event_type)
                  => result.value.event_type = Str(<<>>)
    /\ \A n \in 1..Len(invoked) : invoked[n].event.event_type.t = "str"

\* C10: process_webhook does not verify the signature: on a handler with a
\* secret, a payload whose event type has a callback is dispatched to it
\* whether verify_signature was never called, returned true or returned
\* false before.
C10_ProcessIgnoresVerification ==
    (ParsedOk /\ Truthy(webhook_secret) /\ Parsed.value.event_type.v \in DOMAIN _handlers) =>
        /\ Len(invoked) = 1
        /\ invoked[1].callback = _handlers[Parsed.value.event_type.v]
        /\ result = Call(invoked[1].callback, Parsed.value)

\* C10 witness: a webhook was dispatched right after verify_signature
\* returned false.
C10_Witness ==
    /\ ParsedOk
    /\ Truthy(webhook_secret)
    /\ lastVerify = Return(Bool(FALSE))
    /\ Len(invoked) = 1

\* the event type of a payload that decodes and is built into an event
EventTypeOf(payload) == from_dict(decode_payload(payload).val).value.event_type

\* the payload decodes to an event whose event_type is a string
StringTyped(payload) ==
    /\ decode_payload(payload).kind = "ok"
    /\ ~from_dict(decode_payload(payload).val).raised
    /\ EventTypeOf(payload).t = "str"

\* C12: process_webhook and handle_event for an event type with no
\* registered callback return normally, invoke no callback and leave the
\* registry and the secret unchanged.
C12_NoHandlerNoOp ==
    [][((\/ op' = "handle_event" /\ args'.event_type \notin DOMAIN _handlers
         \/ /\ op' = "process_webhook"
            /\ StringTyped(args'.payload)
            /\ EventTypeOf(args'.payload).v \notin DOMAIN _handlers)) =>
           /\ result' = Return(None)
           /\ invoked' = <<>>
           /\ _handlers' = _handlers
           /\ webhook_secret' = webhook_secret]_vars

\* C12 witness: a webhook for "email.sent" was processed while only "email"
\* has a callback; nothing was invoked.
C12_Witness ==
    /\ ParsedOk
    /\ Parsed.value.event_type = Str(EmailSent)
    /\ DOMAIN _handlers = { Email }
    /\ result = Return(None)
    /\ invoked = <<>>

\* the registry as the registrations made so far determine it
RegisteredTypes == { regLog[i].event_type : i \in 1..Len(regLog) }
RegistryOfLog ==
    [e \in RegisteredTypes |-> regLog[Latest(RegistrationsOf(e))].callback]

\* C13: the registry is empty at construction and its key set is always the
\* set of event types registered so far; verify_signature, process_webhook,
\* handle_event (and from_dict) change neither the registry nor the secret;
\* the outcome of a process_webhook call is the one its payload and the
\* registrations made before it determine.
C13_RegistryLifecycle ==
    /\ [](/\ op = "init" => _handlers = EmptyRegistry
          /\ DOMAIN _handlers = RegisteredTypes
          /\ ProcessCalled =>
                 /\ result = process_webhook(RegistryOfLog, args.payload).result
                 /\ invoked = process_webhook(RegistryOfLog, args.payload).invoked)
    /\ [][op' \in {"verify_signature", "process_webhook", "handle_event", "from_dict"} =>
             /\ _handlers' = _handlers
             /\ webhook_secret' = webhook_secret]_vars

\* C13 witness: two event types are registered, and after an earlier call a
\* webhook for one of them has been dispatched.
C13_Witness ==
    /\ ProcessCalled
    /\ RegisteredTypes = { EmailSent, Email }
    /\ DOMAIN _handlers = { EmailSent, Email }
    /\ Len(invoked) = 1
    /\ Parsed.value.event_type = Str(Email)

\* the registry built from a history of registrations by on alone, and by
\* register_handler alone
RECURSIVE ReplayOn(_)
ReplayOn(log) ==
    IF log = <<>> THEN EmptyRegistry
    ELSE on(ReplayOn(SubSeq(log, 1, Len(log) - 1)),
            log[Len(log)].event_type, log[Len(log)].callback).handlers

RECURSIVE ReplayRegister(_)
ReplayRegister(log) ==
    IF log = <<>> THEN EmptyRegistry
    ELSE register_handler(ReplayRegister(SubSeq(log, 1, Len(log) - 1)),
                          log[Len(log)].event_type, log[Len(log)].callback).handlers

\* C15: on(event_type)(f) and register_handler(event_type, f) are
\* interchangeable: whatever mix of the two made the registrations, the
\* registry is the one on alone and the one register_handler alone build from
\* the same (event_type, callback) pairs; and on(event_type)(f) returns f.
C15_OnEquivRegister ==
    /\ _handlers = ReplayOn(regLog)
    /\ _handlers = ReplayRegister(regLog)
    /\ op = "on" => result = Return(Function(args.func))

\* C15 witness: two registrations, the latest one made by on, which returned
\* its function.
C15_Witness ==
    /\ op = "on"
    /\ regLog = <<Registration(EmailSent, "f1"), Registration(EmailSent, "f2")>>
    /\ result = Return(Function("f2"))
    /\ _handlers = ReplayRegister(regLog)

\* the value a mapping has for a key; the keys of a mapping are distinct
Present(d, key) == \E i \in 1..Len(d.v) : d.v[i][1] = key
ValueAt(d, key) == d.v[CHOOSE i \in 1..Len(d.v) : d.v[i][1] = key][2]
Mapped(d, key, default) == IF Present(d, key) THEN ValueAt(d, key) ELSE default

\* C17: from_dict maps the mapping field by field: each of event_type,
\* message_id, email, timestamp, data is the mapping's value for the key when
\* present and the default ("", "", "", 0, {}) when absent; the event has no
\* other field, so other keys are ignored.
C17_FieldByField ==
    op = "from_dict" =>
        /\ ~result.raised
        /\ DOMAIN result.value = {"t", "event_type", "message_id", "email", "timestamp", "data"}
        /\ result.value.event_type = Mapped(args.data, K_event_type, Str(<<>>))
        /\ result.value.message_id = Mapped(args.data, K_message_id, Str(<<>>))
        /\ result.value.email = Mapped(args.data, K_email, Str(<<>>))
        /\ result.value.timestamp = Mapped(args.data, K_timestamp, Num(0))
        /\ result.value.data = Mapped(args.data, K_data, Dict(<<>>))
        /\ args.data = Dict(<<>>) =>
               result.value = WebhookEvent(Str(<<>>), Str(<<>>), Str(<<>>), Num(0), Dict(<<>>))

\* C17 witness: a mapping with four of the five keys and an extra one.
C17_Witness ==
    /\ op = "from_dict"
    /\ Present(args.data, <<"e", "x", "t", "r", "a">>)
    /\ ~Present(args.data, K_email)
    /\ result.value.message_id = Str(<<"m", "1">>)
    /\ result.value.email = Str(<<>>)
    /\ result.value.timestamp = Num(7)
    /\ result.value.data = Dict(<<<<<<"k">>, List(<<Num(1)>>)>>>>)

\* the latest call dispatched to a callback, and that callback raised
CallbackRaised ==
    /\ op \in {"process_webhook", "handle_event"}
    /\ Len(invoked) = 1
    /\ Call(invoked[1].callback, invoked[1].event).raised

\* C11: an exception raised inside a registered callback propagates out of
\* process_webhook and handle_event unchanged (neither swallowed nor
\* replaced), and the call leaves the registry as it was.
C11_CallbackErrorPropagates ==
    [][(op' \in {"process_webhook", "handle_event"}
        /\ Len(invoked') = 1
        /\ Call(invoked'[1].callback, invoked'[1].event).raised) =>
           /\ result' = Call(invoked'[1].callback, invoked'[1].event)
           /\ _handlers' = _handlers]_vars

\* C11 witness: a webhook for "email.sent" reached the failing callback and
\* its RuntimeError came out of process_webhook.
C11_Witness ==
    /\ CallbackRaised
    /\ ProcessCalled
    /\ invoked[1].callback = Failing
    /\ invoked[1].event.event_type = Str(EmailSent)
    /\ result = Raise(CallbackError)

(***************************************************************************)
(* Claims about a list of webhooks (checked under SpecCallbacks).          *)
(***************************************************************************)
EachCalled == op = "process_each"

\* the calls of the loop whose payload has one of the event types, and the
\* invocations of a callback
CallsWith(types) ==
    { i \in 1..Len(trace) : EventTypeOf(trace[i].payload) \in { Str(e) : e \in types } }
InvocationsOf(callback) == { n \in 1..Len(invoked) : invoked[n].callback = callback }
RegisteredUnder(callback) == { e \in DOMAIN _handlers : _handlers[e] = callback }

\* C14: over a sequence of process_webhook calls, the number of invocations
\* of a registered callback equals the number of calls whose payload has an
\* event type the callback is registered for; the number of invocations with
\* events of type T equals the number of calls with T when T is registered
\* and is zero otherwise, so a call with another event type changes no count.
C14_InvocationCount ==
    EachCalled =>
        /\ \A f \in CountedCallbacks :
               Cardinality(InvocationsOf(f)) = Cardinality(CallsWith(RegisteredUnder(f)))
        /\ \A e \in CountedTypes :
               Cardinality({ n \in 1..Len(invoked) : invoked[n].event.event_type = Str(e) })
                   = IF e \in DOMAIN _handlers THEN Cardinality(CallsWith({e})) ELSE 0

\* C14 witness: f1 is registered for "email.sent" only; three webhooks for
\* "email.sent" and one for "email" were processed, and f1 was invoked three
\* times.
C14_Witness ==
    /\ EachCalled
    /\ DOMAIN _handlers = { EmailSent }
    /\ _handlers[EmailSent] = "f1"
    /\ Len(trace) = 4
    /\ Cardinality(CallsWith({EmailSent})) = 3
    /\ Cardinality(CallsWith({Email})) = 1
    /\ Cardinality(InvocationsOf("f1")) = 3

(***************************************************************************)
(* Claims about concurrent callers (checked under SpecConcurrent).         *)
(***************************************************************************)
Finished(t) == calls[t].pc = "done"

\* C19: while no registration runs concurrently, every interleaving of
\* concurrent process_webhook calls is safe: a finished call has the outcome
\* of the same call made alone, it invoked exactly the callback registered
\* for its own event type with its own event (none if unregistered), and the
\* registry is the same after the call as before.
C19_ConcurrentCallsSafe ==
    \A t \in Threads :
        Finished(t) =>
            /\ calls[t].result = process_webhook(calls[t].before, calls[t].payload).result
            /\ calls[t].invoked = process_webhook(calls[t].before, calls[t].payload).invoked
            /\ calls[t].after = calls[t].before
            /\ IF EventTypeOf(calls[t].payload).v \in DOMAIN calls[t].before
               THEN calls[t].invoked =
                        <<[callback |-> calls[t].before[EventTypeOf(calls[t].payload).v],
                           event |-> from_dict(decode_payload(calls[t].payload).val).value]>>
               ELSE calls[t].invoked = <<>>

\* C19 witness: two calls overlapped, one for "email.sent" and one for
\* "email", and each invoked the callback of its own event type.
C19_Witness ==
    /\ \A t \in {1, 2} : Finished(t) /\ calls[t].overlapped /\ Len(calls[t].invoked) = 1
    /\ calls[1].event.event_type = Str(EmailSent)
    /\ calls[2].event.event_type = Str(Email)
    /\ calls[1].invoked[1].callback = "f1"
    /\ calls[2].invoked[1].callback = Failing
    /\ calls[1].invoked[1].event = calls[1].event
    /\ calls[2].invoked[1].event = calls[2].event

(***************************************************************************)
(* Claims about dispatch that races with registration (under SpecRace).     *)
(***************************************************************************)
MissingKey(outcome) == outcome.raised /\ outcome.exc.type = "KeyError"

\* the callbacks registered under the key after the caller's membership test
RegisteredSince(call) ==
    { regLog[i].callback : i \in { j \in RegistrationsOf(call.key.v) : j > call.regs } }

\* C22: since no operation removes a registry entry, the two-step dispatch of
\* process_webhook and handle_event (membership test, then lookup and call)
\* never ends in a missing-key error, however on and register_handler
\* interleave with it; the callback it invoked is the one registered under
\* the key when the test ran or one registered under the same key afterwards,
\* and a call whose test found no entry invoked nothing.
C22_RacingDispatchFindsKey ==
    \A t \in Threads :
        Finished(t) =>
            /\ ~MissingKey(calls[t].result)
            /\ Len(calls[t].invoked) <= 1
            /\ \A i \in 1..Len(calls[t].invoked) :
                   /\ calls[t].key.v \in DOMAIN calls[t].tested
                   /\ \/ calls[t].invoked[i].callback = calls[t].tested[calls[t].key.v]
                      \/ calls[t].invoked[i].callback \in RegisteredSince(calls[t])

\* C22 witness: a process_webhook call and a handle_event call both tested
\* the key while "f1" was registered, "f2" was registered under the key
\* before their lookups, and both invoked "f2" and returned normally.
C22_Witness ==
    /\ \A t \in {1, 2} :
           /\ Finished(t)
           /\ calls[t].tested = [k \in {EmailSent} |-> "f1"]
           /\ Len(calls[t].invoked) = 1
           /\ calls[t].invoked[1].callback = "f2"
           /\ calls[t].result = Return(None)
    /\ calls[1].operation = "process_webhook"
    /\ calls[2].operation = "handle_event"
    /\ calls[2].event.event_type = Str(Email)

(***************************************************************************)
(* Claims about the route helpers (checked under SpecAdapter).             *)
(***************************************************************************)
AdapterCalled == op \in {"flask_handler", "fastapi_handler"}

\* the status the client is answered with
Status ==
    IF result.raised
    THEN (IF result.exc.type = "HTTPException" THEN result.exc.status_code ELSE 500)
    ELSE IF op = "flask_handler" THEN result.value.status
    ELSE 200

\* C2: a route helper calls verify_signature on the request body and the
\* signature header before it calls process_webhook, and when verification
\* is false it answers 401 and no callback is invoked.
C2_VerifyBeforeProcess ==
    AdapterCalled =>
        /\ \A i \in 1..Len(trace) :
               trace[i].method = "process_webhook" =>
                   \E j \in 1..(i - 1) :
                       /\ trace[j].method = "verify_signature"
                       /\ PayloadBytes(trace[j].payload) = encode_utf8(args.body)
                       /\ trace[j].signature = args.signature
        /\ (\E j \in 1..Len(trace) :
                /\ trace[j].method = "verify_signature"
                /\ trace[j].outcome = Return(Bool(FALSE)))
               => (Status = 401 /\ invoked = <<>>)

\* the route helper called process_webhook, and what that call did
Processing == AdapterCalled /\ trace # <<>> /\ trace[Len(trace)].method = "process_webhook"
ProcessResult == trace[Len(trace)].outcome

\* C18: a route helper maps the outcome of process_webhook to its response:
\* a payload that is not valid gives a client error (4xx), an exception
\* raised by a registered callback gives a server error (5xx), and a call
\* that returns gives the success response (200).
C18_ResponseMapping ==
    /\ (op = "flask_handler" /\ result = Return(Response(400, [error |-> "Failed to decode JSON object"])))
           => Status \in 400..499
    /\ (Processing /\ ProcessResult.raised /\ ProcessResult.exc.type = "ValueError")
           => Status \in 400..499
    /\ (Processing /\ invoked # <<>> /\ ProcessResult = Raise(CallbackError))
           => Status \in 500..599
    /\ (Processing /\ ~ProcessResult.raised) => Status = 200

\* C20: a request signed with "sha256=" + the digest of its raw body under
\* the handler's secret is never answered with 401 by a route helper,
\* however the JSON of the body is formatted.
C20_RawBodySignatureAccepted ==
    (/\ AdapterCalled
     /\ Truthy(webhook_secret)
     /\ args.signature = Str(Sign(webhook_secret, Str(args.body))))
        => Status # 401

====
